---- MODULE Spec2Model ----
(***************************************************************************)
(* MediaScreen watermark upload server (image-upload/server.py).           *)
(*                                                                         *)
(* Two specifications over one set of variables:                           *)
(*   Spec      the request loop: POST /upload requests handled by          *)
(*             UploadHandler.handle_upload, one statement group per step,  *)
(*             with the two files it writes and the bytes it puts on the   *)
(*             client connection;                                          *)
(*   SpecPort  process startup: find_available_port followed by the        *)
(*             HTTPServer bind of run_server, with other processes         *)
(*             binding and releasing ports in between.                     *)
(*                                                                         *)
(* Byte strings are modelled as a prefix of a named byte stream:           *)
(* [data |-> d, len |-> n] is the first n bytes of stream d, so lengths    *)
(* keep their real values (the 10 MB limit is not scaled).  Text is a      *)
(* sequence of one-character strings.                                      *)
(***************************************************************************)
EXTENDS Integers, Sequences, FiniteSets, TLC

\* ------------------------------------------------------------------ bounds
MaxUploads == 2     \* requests accepted in one run
MaxEnvMoves == 2    \* binds/releases by other processes during startup

\* --------------------------------------------------------------- constants
MAX_SIZE == 10 * 1024 * 1024
START_PORT == 8080
MAX_ATTEMPTS == 100

\* -------------------------------------------------------------------- text
S_multipart ==
    <<"m","u","l","t","i","p","a","r","t","/","f","o","r","m","-","d","a","t","a">>

CT_ABSENT    == << >>
CT_FORM      == S_multipart \o <<";"," ","b","=","x">>
CT_MIXED     == <<"m","u","l","t","i","p","a","r","t","/","m","i","x","e","d">>
CT_TEXT      == <<"t","e","x","t","/","p","l","a","i","n">>
ContentTypes == {CT_ABSENT, CT_FORM, CT_MIXED, CT_TEXT}

FN_EMPTY  == << >>
FN_PNG    == <<"A",".","P","N","G">>
FN_Jpg    == <<"a",".","J","p","g">>
FN_jpeg   == <<"a",".","j","p","e","g">>
FN_gif    == <<"a",".","g","i","f">>
FN_bmp    == <<".","b","m","p">>
FN_txt    == <<"a",".","t","x","t">>
FN_nodot  == <<"p","n","g">>
Filenames == {FN_EMPTY, FN_PNG, FN_Jpg, FN_jpeg, FN_gif, FN_bmp,
              FN_txt, FN_nodot}

StartsWith(s, p) == Len(s) >= Len(p) /\ SubSeq(s, 1, Len(p)) = p
EndsWith(s, e)   == Len(s) >= Len(e) /\ SubSeq(s, Len(s) - Len(e) + 1, Len(s)) = e

\* variant: the file name is compared as given, without lower-casing
lowerOmitted(s) == s

ToLower ==
    "A" :> "a" @@ "G" :> "g" @@ "J" :> "j" @@ "N" :> "n" @@ "P" :> "p"
lower(s) == [i \in DOMAIN s |-> IF s[i] \in DOMAIN ToLower THEN ToLower[s[i]] ELSE s[i]]

RECURSIVE Join(_, _)
Join(seqs, sep) ==
    IF seqs = << >> THEN << >>
    ELSE IF Len(seqs) = 1 THEN seqs[1]
    ELSE seqs[1] \o sep \o Join(Tail(seqs), sep)

allowed_extensions ==
    << <<".","p","n","g">>, <<".","j","p","g">>, <<".","j","p","e","g">>,
       <<".","g","i","f">>, <<".","b","m","p">> >>

\* ------------------------------------------------------------------- bytes
Streams == {"a", "b"}
\* payload lengths tried: empty, one byte, the limit, one byte over
Sizes   == {0, 1, MAX_SIZE, MAX_SIZE + 1}
EmptyBytes == [data |-> "", len |-> 0]
Prefix(d, k) == IF k = 0 THEN EmptyBytes ELSE [data |-> d, len |-> k]
Payloads == {Prefix(d, n) : d \in Streams, n \in Sizes}
NoBytes == [data |-> "", len |-> -1]
\* lengths a write of b may have put on disk so far
PrefixLens(b) == {k \in Sizes : k <= b.len}

Requests ==
    [ctype : ContentTypes, hasFile : BOOLEAN, filename : Filenames, body : Payloads]

\* ------------------------------------------------------------------- state
VARIABLES
    watermark,   \* the file watermark.png: [exists, content]
    flag,        \* the file upload_complete.flag: [exists, content]
    active,      \* requests inside the server (connection accepted, not yet closed)
    nreq,        \* number of requests accepted so far
    wmWriter,    \* request that last opened watermark.png for writing (0: none)
    flagWriter,  \* request that last opened upload_complete.flag for writing (0: none)
    wmComplete,  \* the last write of watermark.png ran to its close (opened,
                 \* payload written, file closed)
    lastOK,      \* payload of the last request whose 200 response was sent in full
    ppc,         \* startup: position in run_server / find_available_port
    port,        \* startup: loop variable of find_available_port
    chosen,      \* startup: port returned by find_available_port (0: none)
    busy,        \* startup: ports bound by other processes
    envMoves     \* startup: binds/releases by other processes so far

fileVars == <<watermark, flag, active, nreq, wmWriter, flagWriter, wmComplete, lastOK>>
portVars == <<ppc, port, chosen, busy, envMoves>>
vars == <<watermark, flag, active, nreq, wmWriter, flagWriter, wmComplete, lastOK,
          ppc, port, chosen, busy, envMoves>>

MissingWatermark == [exists |-> FALSE, content |-> NoBytes]
MissingFlag == [exists |-> FALSE, content |-> ""]
NoResp == [status |-> 0, data |-> [error |-> << >>]]

\* ------------------------------------------------------- request handling
\* A request inside the server.  wm0/flag0 record the two files as they were
\* when the request was accepted, wrote the files the request opened for
\* writing, issued the send_json_response calls made, wire what reached the
\* connection.
NewHandler(r, id) ==
    [uid |-> id, req |-> r, pc |-> "check_type", file_data |-> NoBytes,
     resp |-> NoResp, issued |-> << >>, wire |-> << >>, connOK |-> TRUE,
     inExcept |-> FALSE, failedAt |-> "", outcome |-> "running",
     wm0 |-> watermark, flag0 |-> flag, wrote |-> {}]

Step(h, h2) == active' = (active \ {h}) \cup {h2}

\* HTTPServer.serve_forever handles one connection to completion before it
\* accepts the next.
ServerFree == active = {}

Accept ==
    /\ ServerFree
    /\ nreq < MaxUploads
    /\ \E r \in Requests : active' = active \cup {NewHandler(r, nreq + 1)}
    /\ nreq' = nreq + 1
    /\ UNCHANGED <<watermark, flag, wmWriter, flagWriter, wmComplete, lastOK, portVars>>

\* send_json_response(data, status): the call is recorded, the bytes follow
\* in SendHead and SendBody.
send_json_response(h, data, status) ==
    [h EXCEPT !.resp = [status |-> status, data |-> data],
              !.issued = Append(@, [status |-> status, data |-> data]),
              !.pc = "send_head"]

Reject(h, msg) == send_json_response(h, [error |-> msg], 400)

\* variant: the status argument left to its default
ExceptStatusDefault == 200

ExceptStatus == 500

\* An exception raised at `step`.  Inside the try block it is caught by
\* `except Exception`, which answers 500; raised by that answer itself it
\* leaves handle_upload.
Raise(h, step, msg) ==
    IF h.inExcept
    THEN [h EXCEPT !.pc = "done", !.outcome = "raised"]
    ELSE send_json_response([h EXCEPT !.inExcept = TRUE, !.failedAt = step],
                            [error |-> <<"Server error: ", msg>>], ExceptStatus)

HasMultipartType(ct) == StartsWith(ct, S_multipart)

CheckContentType ==
    \E h \in active :
        /\ h.pc = "check_type"
        /\ IF ~HasMultipartType(h.req.ctype)
           THEN Step(h, Reject(h, <<"Invalid content type">>))
           ELSE Step(h, [h EXCEPT !.pc = "parse"])
        /\ UNCHANGED <<watermark, flag, nreq, wmWriter, flagWriter, wmComplete, lastOK, portVars>>

\* cgi.FieldStorage(...) reads and parses the body; it may raise.
ParseForm ==
    \E h \in active :
        /\ h.pc = "parse"
        /\ \/ Step(h, [h EXCEPT !.pc = "check_field"])
           \/ Step(h, Raise(h, "parse", "multipart parse error"))
        /\ UNCHANGED <<watermark, flag, nreq, wmWriter, flagWriter, wmComplete, lastOK, portVars>>

CheckField ==
    \E h \in active :
        /\ h.pc = "check_field"
        /\ IF ~h.req.hasFile
           THEN Step(h, Reject(h, <<"No file uploaded">>))
           ELSE Step(h, [h EXCEPT !.pc = "check_name"])
        /\ UNCHANGED <<watermark, flag, nreq, wmWriter, flagWriter, wmComplete, lastOK, portVars>>

CheckName ==
    \E h \in active :
        /\ h.pc = "check_name"
        /\ IF h.req.filename = << >>
           THEN Step(h, Reject(h, <<"No file selected">>))
           ELSE Step(h, [h EXCEPT !.pc = "check_ext"])
        /\ UNCHANGED <<watermark, flag, nreq, wmWriter, flagWriter, wmComplete, lastOK, portVars>>

\* variant: the suffix is compared without its leading dot
ExtensionAllowedNoDot(name) ==
    LET filename == lower(name)
    IN  \E i \in DOMAIN allowed_extensions :
            EndsWith(filename, Tail(allowed_extensions[i]))

ExtensionAllowed(name) ==
    LET filename == lower(name)
    IN  \E i \in DOMAIN allowed_extensions : EndsWith(filename, allowed_extensions[i])

CheckExtension ==
    \E h \in active :
        /\ h.pc = "check_ext"
        /\ IF ~ExtensionAllowed(h.req.filename)
           THEN Step(h, Reject(h, <<"Invalid file type. Allowed: ">>
                                   \o Join(allowed_extensions, <<",", " ">>)))
           ELSE Step(h, [h EXCEPT !.pc = "read"])
        /\ UNCHANGED <<watermark, flag, nreq, wmWriter, flagWriter, wmComplete, lastOK, portVars>>

\* file_data = fileitem.file.read()
ReadData ==
    \E h \in active :
        /\ h.pc = "read"
        /\ \/ Step(h, [h EXCEPT !.file_data = h.req.body, !.pc = "check_size"])
           \/ Step(h, Raise(h, "read", "read error"))
        /\ UNCHANGED <<watermark, flag, nreq, wmWriter, flagWriter, wmComplete, lastOK, portVars>>

\* variant: the limit itself is rejected
TooLargeInclusive(n) == n >= MAX_SIZE

TooLarge(n) == n > MAX_SIZE

\* variant: the completion flag is written before the watermark
SaveStepsFlagFirst ==
    <<"flag_open", "flag_write", "wm_open", "wm_write", "wm_close", "respond">>

\* The statements after the size check, in program order.
SaveSteps == <<"wm_open", "wm_write", "wm_close", "flag_open", "flag_write", "respond">>

After(p) == SaveSteps[(CHOOSE i \in DOMAIN SaveSteps : SaveSteps[i] = p) + 1]

CheckSize ==
    \E h \in active :
        /\ h.pc = "check_size"
        /\ IF TooLarge(h.file_data.len)
           THEN Step(h, Reject(h, <<"File too large (max 10MB)">>))
           ELSE Step(h, [h EXCEPT !.pc = SaveSteps[1]])
        /\ UNCHANGED <<watermark, flag, nreq, wmWriter, flagWriter, wmComplete, lastOK, portVars>>

\* with open('watermark.png', 'wb') as f: opening truncates the file
OpenWatermark ==
    \E h \in active :
        /\ h.pc = "wm_open"
        /\ \/ /\ watermark' = [exists |-> TRUE, content |-> EmptyBytes]
              /\ wmWriter' = h.uid
              /\ wmComplete' = FALSE
              /\ Step(h, [h EXCEPT !.pc = After("wm_open"),
                                   !.wrote = @ \cup {"watermark.png"}])
           \/ /\ Step(h, Raise(h, "wm_open", "watermark.png: open failed"))
              /\ UNCHANGED <<watermark, wmWriter, wmComplete>>
        /\ UNCHANGED <<flag, nreq, flagWriter, lastOK, portVars>>

\* f.write(file_data): on return a prefix of the payload is in the file and
\* the rest in the writer's buffer; on failure a proper prefix is in the file.
WriteWatermark ==
    \E h \in active :
        /\ h.pc = "wm_write"
        /\ \/ \E k \in PrefixLens(h.file_data) :
                /\ watermark' = [exists |-> TRUE,
                                 content |-> Prefix(h.file_data.data, k)]
                /\ Step(h, [h EXCEPT !.pc = After("wm_write")])
           \/ \E k \in PrefixLens(h.file_data) \ {h.file_data.len} :
                /\ watermark' = [exists |-> TRUE,
                                 content |-> Prefix(h.file_data.data, k)]
                /\ Step(h, Raise(h, "wm_write", "watermark.png: write failed"))
        /\ UNCHANGED <<flag, nreq, wmWriter, flagWriter, wmComplete, lastOK, portVars>>

\* leaving the with block closes the file, which flushes the buffer
CloseWatermark ==
    \E h \in active :
        /\ h.pc = "wm_close"
        /\ \/ /\ watermark' = [exists |-> TRUE, content |-> h.file_data]
              /\ wmComplete' = TRUE
              /\ Step(h, [h EXCEPT !.pc = After("wm_close")])
           \/ /\ Step(h, Raise(h, "wm_close", "watermark.png: close failed"))
              /\ UNCHANGED <<watermark, wmComplete>>
        /\ UNCHANGED <<flag, nreq, wmWriter, flagWriter, lastOK, portVars>>

\* with open('upload_complete.flag', 'w') as f: opening creates or truncates
OpenFlag ==
    \E h \in active :
        /\ h.pc = "flag_open"
        /\ \/ /\ flag' = [exists |-> TRUE, content |-> ""]
              /\ flagWriter' = h.uid
              /\ Step(h, [h EXCEPT !.pc = After("flag_open"),
                                   !.wrote = @ \cup {"upload_complete.flag"}])
           \/ /\ Step(h, Raise(h, "flag_open", "upload_complete.flag: open failed"))
              /\ UNCHANGED <<flag, flagWriter>>
        /\ UNCHANGED <<watermark, nreq, wmWriter, wmComplete, lastOK, portVars>>

FLAG_TEXT == "success"

\* f.write('success') and the close that flushes it
WriteFlag ==
    \E h \in active :
        /\ h.pc = "flag_write"
        /\ \/ /\ flag' = [exists |-> TRUE, content |-> FLAG_TEXT]
              /\ Step(h, [h EXCEPT !.pc = After("flag_write")])
           \/ /\ Step(h, Raise(h, "flag_write", "upload_complete.flag: write failed"))
              /\ UNCHANGED flag
        /\ UNCHANGED <<watermark, nreq, wmWriter, flagWriter, wmComplete, lastOK, portVars>>

SuccessBody(h) ==
    [status |-> "success", message |-> "File uploaded successfully",
     filename |-> "watermark.png", size |-> h.file_data.len]

RespondSuccess ==
    \E h \in active :
        /\ h.pc = "respond"
        /\ Step(h, send_json_response(h, SuccessBody(h), 200))
        /\ UNCHANGED <<watermark, flag, nreq, wmWriter, flagWriter, wmComplete, lastOK, portVars>>

\* end_headers(): the status line and headers go to the connection.  A write
\* to a connection the client has dropped raises, now and from now on.
SendHead ==
    \E h \in active :
        /\ h.pc = "send_head"
        /\ \/ /\ h.connOK
              /\ Step(h, [h EXCEPT !.wire = Append(@, [part |-> "head",
                                                       status |-> h.resp.status]),
                                   !.pc = "send_body"])
           \/ Step(h, Raise([h EXCEPT !.connOK = FALSE], "send", "Broken pipe"))
        /\ UNCHANGED <<watermark, flag, nreq, wmWriter, flagWriter, wmComplete, lastOK, portVars>>

\* self.wfile.write(response); afterwards handle_upload returns (the success
\* branch after its log line, the others directly).
SendBody ==
    \E h \in active :
        /\ h.pc = "send_body"
        /\ \/ /\ h.connOK
              /\ Step(h, [h EXCEPT !.wire = Append(@, [part |-> "body",
                                                       status |-> h.resp.status]),
                                   !.pc = "done", !.outcome = "returned"])
              /\ lastOK' = IF h.resp.status = 200 THEN h.file_data ELSE lastOK
           \/ /\ Step(h, Raise([h EXCEPT !.connOK = FALSE], "send", "Broken pipe"))
              /\ UNCHANGED lastOK
        /\ UNCHANGED <<watermark, flag, nreq, wmWriter, flagWriter, wmComplete, portVars>>

\* The handler is finished (returned, or its exception reached the server's
\* handle_error); the connection is shut down and the loop goes on.
Close ==
    \E h \in active :
        /\ h.pc = "done"
        /\ active' = active \ {h}
        /\ UNCHANGED <<watermark, flag, nreq, wmWriter, flagWriter, wmComplete, lastOK, portVars>>

Init ==
    /\ watermark = MissingWatermark
    /\ flag = MissingFlag
    /\ active = {}
    /\ nreq = 0
    /\ wmWriter = 0
    /\ flagWriter = 0
    /\ wmComplete = TRUE
    /\ lastOK = NoBytes
    /\ ppc = "listening"
    /\ port = START_PORT
    /\ chosen = START_PORT
    /\ busy = {}
    /\ envMoves = 0

Next ==
    \/ Accept
    \/ CheckContentType
    \/ ParseForm
    \/ CheckField
    \/ CheckName
    \/ CheckExtension
    \/ ReadData
    \/ CheckSize
    \/ OpenWatermark
    \/ WriteWatermark
    \/ CloseWatermark
    \/ OpenFlag
    \/ WriteFlag
    \/ RespondSuccess
    \/ SendHead
    \/ SendBody
    \/ Close

Spec == Init /\ [][Next]_vars

\* ----------------------------------------------------------------- startup
\* Ports other processes hold when the server starts: the first k ports of
\* the probed range, for these k.
InitOccupied == {0, 1, 2, MAX_ATTEMPTS - 1, MAX_ATTEMPTS}

LastPort == START_PORT + MAX_ATTEMPTS - 1

\* Ports whose state matters to the next step of the startup code.
Watched == {p \in {port - 1, port, chosen} : p >= START_PORT /\ p <= LastPort}

\* find_available_port: s.bind(('', port)) succeeds, the probe socket is
\* closed on leaving the with block and the port number is returned.
ProbeFree ==
    /\ ppc = "probe"
    /\ port <= LastPort
    /\ port \notin busy
    /\ chosen' = port
    /\ ppc' = "bind"
    /\ UNCHANGED <<port, busy, envMoves, fileVars>>

\* find_available_port: s.bind raises OSError, the loop continues.
ProbeBusy ==
    /\ ppc = "probe"
    /\ port <= LastPort
    /\ port \in busy
    /\ port' = port + 1
    /\ UNCHANGED <<ppc, chosen, busy, envMoves, fileVars>>

\* find_available_port: the range is exhausted, RuntimeError ends the process.
ProbeExhausted ==
    /\ ppc = "probe"
    /\ port > LastPort
    /\ ppc' = "no_port"
    /\ UNCHANGED <<port, chosen, busy, envMoves, fileVars>>

\* run_server: HTTPServer(server_address, UploadHandler) binds the port anew.
ServerBind ==
    /\ ppc = "bind"
    /\ ppc' = IF chosen \in busy THEN "exit1" ELSE "listening"
    /\ UNCHANGED <<port, chosen, busy, envMoves, fileVars>>

\* Another process binds a free port (not the one this server listens on).
EnvBind ==
    /\ ppc \in {"probe", "bind"}
    /\ envMoves < MaxEnvMoves
    /\ \E p \in Watched \ busy : busy' = busy \cup {p}
    /\ envMoves' = envMoves + 1
    /\ UNCHANGED <<ppc, port, chosen, fileVars>>

\* Another process releases a port it held.
EnvRelease ==
    /\ ppc \in {"probe", "bind"}
    /\ envMoves < MaxEnvMoves
    /\ \E p \in Watched \cap busy : busy' = busy \ {p}
    /\ envMoves' = envMoves + 1
    /\ UNCHANGED <<ppc, port, chosen, fileVars>>

InitPort ==
    /\ watermark = MissingWatermark
    /\ flag = MissingFlag
    /\ active = {}
    /\ nreq = 0
    /\ wmWriter = 0
    /\ flagWriter = 0
    /\ wmComplete = TRUE
    /\ lastOK = NoBytes
    /\ ppc = "probe"
    /\ port = START_PORT
    /\ chosen = 0
    /\ busy \in {START_PORT .. (START_PORT + k - 1) : k \in InitOccupied}
    /\ envMoves = 0

NextPort ==
    \/ ProbeFree
    \/ ProbeBusy
    \/ ProbeExhausted
    \/ ServerBind
    \/ EnvBind
    \/ EnvRelease

SpecPort == InitPort /\ [][NextPort]_vars

\* ================================================================== claims
\* The claims' own reading of a request, written out over the inputs above
\* and independent of the handler's operators.
ClaimBadTypes == {CT_ABSENT, CT_MIXED, CT_TEXT}
ClaimGoodNames == {FN_PNG, FN_Jpg, FN_jpeg, FN_gif, FN_bmp}
ClaimBadNames == {FN_txt, FN_nodot}
ClaimLimit == 10485760
ClaimAllowedText ==
    <<"Invalid file type. Allowed: ",
      ".","p","n","g", ",", " ", ".","j","p","g", ",", " ",
      ".","j","p","e","g", ",", " ", ".","g","i","f", ",", " ", ".","b","m","p">>

ClaimValid(r) ==
    /\ r.ctype \notin ClaimBadTypes
    /\ r.hasFile
    /\ r.filename \in ClaimGoodNames
    /\ r.body.len <= ClaimLimit

\* the message of the first check, in the stated order, that r fails
ClaimFirstFailure(r) ==
    IF r.ctype \in ClaimBadTypes THEN <<"Invalid content type">>
    ELSE IF ~r.hasFile THEN <<"No file uploaded">>
    ELSE IF r.filename = << >> THEN <<"No file selected">>
    ELSE IF r.filename \in ClaimBadNames THEN ClaimAllowedText
    ELSE IF r.body.len > ClaimLimit THEN <<"File too large (max 10MB)">>
    ELSE << >>

Whole(status) == <<[part |-> "head", status |-> status], [part |-> "body", status |-> status]>>
Finished(h) == h.pc = "done"
BeforeChecksEnd == {"parse", "read"}
BeforeResponse ==
    {"parse", "read", "wm_open", "wm_write", "wm_close", "flag_open", "flag_write"}

\* C1 (as claimed): whenever upload_complete.flag is present, watermark.png
\* exists and its last write has completed -- it is not open for writing,
\* truncated or holding part of a payload.
C1_FlagImpliesWatermarkComplete ==
    flag.exists => (watermark.exists /\ wmComplete)

\* C2: within a request, the flag file is opened only after that same
\* request has opened, fully written and closed watermark.png; while the
\* watermark is being written the request has not touched the flag.
C2_FlagAfterWatermark ==
    \A h \in active :
        /\ h.pc \in {"wm_open", "wm_write", "wm_close"}
              => "upload_complete.flag" \notin h.wrote
        /\ "upload_complete.flag" \in h.wrote
              => /\ "watermark.png" \in h.wrote
                 /\ wmWriter = h.uid
                 /\ wmComplete
                 /\ watermark = [exists |-> TRUE, content |-> h.file_data]

C2_Witness ==
    \E h \in active :
        /\ "upload_complete.flag" \in h.wrote
        /\ h.uid = 2
        /\ h.wm0.exists
        /\ h.file_data.len = MAX_SIZE
        /\ flag.content = FLAG_TEXT

\* C3: a finished request that is valid (multipart content type, a file
\* field, an allowed extension in any case, at most 10,485,760 bytes) and in
\* which no step failed was answered 200 with size = N and filename =
\* "watermark.png"; watermark.png holds exactly its N bytes and the flag
\* file holds "success".
C3_ValidUploadStored ==
    \A h \in active :
        (Finished(h) /\ ClaimValid(h.req) /\ h.failedAt = "")
          => /\ h.wire = Whole(200)
             /\ h.issued = <<[status |-> 200,
                              data |-> [status |-> "success",
                                        message |-> "File uploaded successfully",
                                        filename |-> "watermark.png",
                                        size |-> h.req.body.len]]>>
             /\ watermark = [exists |-> TRUE, content |-> h.req.body]
             /\ flag = [exists |-> TRUE, content |-> "success"]

C3_Witness ==
    \E h \in active :
        /\ Finished(h) /\ ClaimValid(h.req) /\ h.failedAt = ""
        /\ h.req.filename = FN_PNG
        /\ h.req.body.len = ClaimLimit
        /\ h.wm0.exists /\ h.wm0.content # h.req.body

\* C4 (as claimed): between requests, once some upload has been answered
\* 200, watermark.png holds exactly the payload of the latest such upload.
C4_LatestSuccessfulPayload ==
    (active = {} /\ lastOK # NoBytes)
      => watermark = [exists |-> TRUE, content |-> lastOK]

\* C5: a request that fails a validation check leaves watermark.png and
\* upload_complete.flag as they were when it arrived and opens neither; if
\* handling reached the checks, the response the handler gives is a 400
\* whose body has the key `error`, and it is what the connection carries
\* whenever the client is still there to receive it.
C5_RejectedLeavesFiles ==
    \A h \in active :
        ClaimFirstFailure(h.req) # << >>
          => /\ watermark = h.wm0
             /\ flag = h.flag0
             /\ h.wrote = {}
             /\ (Finished(h) /\ h.failedAt \notin BeforeChecksEnd)
                   => /\ h.issued # << >>
                      /\ h.issued[1].status = 400
                      /\ "error" \in DOMAIN h.issued[1].data
                      /\ h.connOK => h.wire = Whole(400)

C5_Witness ==
    \E h \in active :
        /\ Finished(h)
        /\ h.req.ctype = CT_FORM /\ h.req.hasFile /\ h.req.filename = FN_PNG
        /\ h.req.body.len = ClaimLimit + 1
        /\ h.wm0.exists /\ h.flag0.exists
        /\ h.wire = Whole(400)

\* C6 (as claimed): startup ends fatally only when all 100 probes failed;
\* otherwise the server listens on the port its probe found free.
C6_OnlyExhaustionIsFatal ==
    /\ ppc \in {"no_port", "exit1"} => (ppc = "no_port" /\ port = START_PORT + MAX_ATTEMPTS)
    /\ ppc = "listening" => (chosen = port /\ chosen \notin busy)

\* C7 (as claimed): a finished request has either opened and completely
\* written both files or touched neither.
C7_BothOrNeither ==
    \A h \in active :
        Finished(h)
          => \/ h.wrote = {}
             \/ /\ h.wrote = {"watermark.png", "upload_complete.flag"}
                /\ watermark = [exists |-> TRUE, content |-> h.file_data]
                /\ flag = [exists |-> TRUE, content |-> FLAG_TEXT]

\* C8: when no step fails before the checks are done, the first response the
\* handler gives is the 400 carrying the message of the first check (content
\* type, file field, file name, extension, size) the request fails, and is
\* not a 400 when it fails none -- 10,485,760 bytes included.
C8_FirstFailingCheckDecides ==
    \A h \in active :
        (Finished(h) /\ h.failedAt \notin BeforeChecksEnd)
          => /\ h.issued # << >>
             /\ IF ClaimFirstFailure(h.req) # << >>
                THEN h.issued[1] = [status |-> 400,
                                    data |-> [error |-> ClaimFirstFailure(h.req)]]
                ELSE h.issued[1].status # 400

C8_Witness ==
    \E h \in active :
        /\ Finished(h)
        /\ h.req.ctype = CT_FORM /\ ~h.req.hasFile
        /\ h.req.filename = FN_txt /\ h.req.body.len = ClaimLimit + 1
        /\ h.issued[1].data.error = <<"No file uploaded">>

\* C9 (as claimed): a request in which parsing, reading, a file write or the
\* sending of the success response failed was given exactly one response, a
\* 500, and nothing of a 200 was sent.
C9_ExactlyOne500 ==
    \A h \in active :
        (Finished(h) /\ (h.failedAt \in BeforeResponse
                          \/ (h.failedAt = "send" /\ h.issued[1].status = 200)))
          => /\ Len(h.issued) = 1
             /\ h.issued[1].status = 500
             /\ \A i \in DOMAIN h.wire : h.wire[i].status # 200

\* C9 (amended): when a step before the response (parsing, reading, writing
\* either file) fails, the handler gives exactly one response, a 500 with
\* body {"error": "Server error: <message>"}, nothing of a 200 is sent, and
\* the 500 is what the connection carries if the client is still there.
\* When sending the success response fails, the 200 has already been given
\* (its head may have been sent) and the 500 attempted after it cannot be
\* sent.  In every case the handler ends and its connection can be closed.
C9_Amended ==
    \A h \in active :
        Finished(h)
          => /\ h.outcome \in {"returned", "raised"}
             /\ h.failedAt \in BeforeResponse
                  => /\ Len(h.issued) = 1
                     /\ h.issued[1].status = 500
                     /\ DOMAIN h.issued[1].data = {"error"}
                     /\ Len(h.issued[1].data.error) = 2
                     /\ h.issued[1].data.error[1] = "Server error: "
                     /\ \A i \in DOMAIN h.wire : h.wire[i].status # 200
                     /\ h.connOK => h.wire = Whole(500)
             /\ (h.failedAt = "send" /\ h.issued[1].status = 200)
                  => /\ Len(h.issued) = 2
                     /\ h.issued[2].status = 500
                     /\ h.wire \in {<< >>, <<[part |-> "head", status |-> 200]>>}
                     /\ h.outcome = "raised"

C9_Witness ==
    \E h \in active :
        /\ Finished(h)
        /\ h.failedAt = "flag_write"
        /\ h.wire = Whole(500)

\* C10 (as claimed): at most one request is inside the server at a time,
\* and between requests the flag file was last written by the same upload
\* as watermark.png.
C10_SerialAndPaired ==
    /\ Cardinality(active) <= 1
    /\ (active = {} /\ flag.exists) => flagWriter = wmWriter
====
